---- MODULE Spec2Model ----
(***************************************************************************)
(* PalCON-Discord: the synchronous RCON client (src/client.py) and the     *)
(* slash-command handlers that drive it (src/main.py).                     *)
(*                                                                         *)
(* Texts are sequences of strings.  A text received from the game server   *)
(* is a sequence of one-character strings, so that split, join and         *)
(* slicing are computed as Python computes them; a fixed message of the    *)
(* program is a one-element sequence holding the whole message.            *)
(***************************************************************************)
EXTENDS Integers, Sequences, FiniteSets, TLC

(***************************************************************************)
(* Bounds                                                                  *)
(***************************************************************************)
\* number of slash commands handled in one behaviour
MaxCalls == 2

\* length of the generated ShowPlayers responses
MaxRosterLen == 6

\* length of the generated Info responses
MaxInfoLen == 4

(***************************************************************************)
(* Python string helpers                                                   *)
(***************************************************************************)
\* str.split(sep): always at least one field; n separators give n+1 fields
RECURSIVE split(_, _)
split(s, sep) ==
    IF \A i \in 1..Len(s) : s[i] # sep
    THEN <<s>>
    ELSE LET i == CHOOSE k \in 1..Len(s) :
                      s[k] = sep /\ \A j \in 1..(k - 1) : s[j] # sep
         IN  <<SubSeq(s, 1, i - 1)>> \o split(SubSeq(s, i + 1, Len(s)), sep)

\* sep.join(words)
RECURSIVE join(_, _)
join(sep, words) ==
    IF Len(words) = 0 THEN <<>>
    ELSE IF Len(words) = 1 THEN words[1]
    ELSE words[1] \o <<sep>> \o join(sep, Tail(words))

\* truthiness of a str
truthy(s) == Len(s) > 0

(***************************************************************************)
(* Program constants                                                       *)
(***************************************************************************)
\* Client.GENERIC_ERROR
GENERIC_ERROR == <<"Unable to process your request (server did not respond)">>

\* config["generic_bot_error"], the handlers' default error text
generic_bot_error == <<"generic_bot_error">>

\* the exceptions the transport capability raises
ConnectionError == "ConnectionError"
TransportError == "TransportError"

(***************************************************************************)
(* Inputs                                                                  *)
(***************************************************************************)
\* steam ids an administrator passes to /kick and /ban_player
SteamIds == { <<"7">> }

\* replies of the game server to a plain admin command
PlainResponses == { <<>>, <<"o", "k">> }

\* replies of the game server to ShowPlayers used by the command flow
RosterSamples ==
    { <<>>,
      <<"h", "\n", "A", ",", "1", ",", "7", "\n">>,
      <<"h", "\n", "A", ",", "1", "\n">> }

\* replies of the game server to Info used by the command flow
InfoSamples ==
    { <<>>,
      <<"[", "1", "]", " ", "N">>,
      <<"N", "o">>,
      <<"]", "1", "[">> }

VARIABLES
    server,     \* the game server: the text it answers to each kind of command
    conns,      \* every Console constructed so far: [open, cmds]
    cur,        \* index in conns of the Console of the running method, 0 if none
    pc,         \* position of the running handler
    handler,    \* the slash command being handled
    method,     \* the Client method being executed
    arg,        \* the arguments of the handler
    res,        \* the response read by console.command
    fault,      \* the exception the transport raised in the running method, or "none"
    ret,        \* how the last Client method ended: return value or exception
    errlog,     \* what the running handler passed to log.error
    player_ign, \* kick / ban_player: the looked-up name
    reply,      \* what the handler sent back to Discord
    ncalls,     \* slash commands handled so far
    CONFIG,     \* the check_public_ip, check_cpu and check_ram switches
    palworld_info,    \* main.py's global: the Process found at start-up, or False
    embed_title,      \* status_checks: local, unbound until assigned
    description_list, \* status_checks: the items appended so far
    http_log,         \* the requests.get calls of the running check and their outcomes
    ip_locals,        \* check_current_ip: current_ip and ip_match
    ip_result,        \* how check_current_ip ended
    resources_result, \* how check_current_resources ended
    proc_env,         \* the operating system as the resource check found it
    cpu_usage,        \* cpu_usage of check_current_resources: <<>> is None
    cpu_sample,       \* what psutil measured for check_cpu_usage
    status_out,       \* how status_checks ended
    CONSOLE,          \* AsyncClient.CONSOLE: is it open, and which session it holds
    async_pc,         \* position of the running AsyncClient call
    async_cmd,        \* the AsyncClient method being executed and its command text
    async_ret,        \* how the last AsyncClient call ended
    console_log,      \* what was done to CONSOLE, in order
    async_calls       \* AsyncClient calls issued so far

gvars == <<server, conns, cur, pc, handler, method, arg, res, fault, ret, errlog,
           player_ign, reply, ncalls>>

svars == <<CONFIG, palworld_info, embed_title, description_list, http_log,
           ip_locals, ip_result, resources_result, proc_env, cpu_usage,
           cpu_sample, status_out>>

\* the variables of the command flow other than pc
cvars == <<server, conns, cur, handler, method, arg, res, fault, ret, errlog,
           player_ign, reply, ncalls>>

\* the variables of the long-lived connection mode
avars == <<CONSOLE, async_pc, async_cmd, async_ret, console_log, async_calls>>

vars == <<gvars, svars, avars>>

(***************************************************************************)
(* Client.online: the roster parser                                        *)
(***************************************************************************)
\* a dict whose entries are never overwritten
DictPut_KeepFirst(players, steam_id, ign) ==
    [k \in (DOMAIN players) \cup {steam_id} |->
        IF k \in DOMAIN players THEN players[k] ELSE ign]

\* the dict after players[steam_id] = ign
DictPut(players, steam_id, ign) ==
    [k \in (DOMAIN players) \cup {steam_id} |->
        IF k = steam_id THEN ign ELSE players[k]]

EmptyDict == [k \in {} |-> <<>>]

\* the loop over the data lines; stops at the first line with < 3 fields
RECURSIVE parse_lines(_, _)
parse_lines(lines, players) ==
    IF Len(lines) = 0 THEN [players |-> players, logged |-> <<>>]
    ELSE LET words == split(lines[1], ",")
         IN  IF Len(words) < 3
             THEN [players |-> players, logged |-> <<words>>]
             ELSE LET ign == IF Len(words) > 3
                             THEN join(",", SubSeq(words, 1, Len(words) - 2))
                             ELSE words[1]
                      steam_id == IF Len(words) > 3
                                  THEN words[Len(words)]
                                  ELSE words[3]
                  IN  parse_lines(Tail(lines), DictPut(players, steam_id, ign))

\* res.split('\n')[:-1]: the header is kept
data_lines_KeepHeader(r) ==
    LET all == split(r, "\n")
    IN  SubSeq(all, 1, Len(all) - 1)

\* res.split('\n')[1:-1]
data_lines(r) ==
    LET all == split(r, "\n")
    IN  SubSeq(all, 2, Len(all) - 1)

\* the value Client.online returns for the response r, and what it logs
online(r) ==
    IF truthy(r)
    THEN LET p == parse_lines(data_lines(r), EmptyDict)
         IN  [players |-> p.players, error_message |-> <<>>, logged |-> p.logged]
    ELSE [players |-> EmptyDict, error_message |-> GENERIC_ERROR, logged |-> <<>>]

(***************************************************************************)
(* Client.info: the server-info parser                                     *)
(***************************************************************************)
\* res[a:b] for 0 <= a
PySlice(s, a, b) ==
    LET hi == IF b < Len(s) THEN b ELSE Len(s)
    IN  IF a >= hi THEN <<>> ELSE SubSeq(s, a + 1, hi)

\* the for loop of get_indices_from_info from 0-based position index on,
\* with version_number_start_index = start so far
RECURSIVE scan_info(_, _, _)
scan_info(r, index, start) ==
    IF index >= Len(r) THEN <<start, -1, -1>>
    ELSE LET char == r[index + 1]
             start2 == IF char = "[" THEN index + 1 ELSE start
         IN  IF char = "]" THEN <<start2, index, index + 2>>
             ELSE scan_info(r, index + 1, start2)

get_indices_from_info(r) == scan_info(r, 0, -1)

NoServerInfo == [present |-> FALSE, version |-> <<>>, name |-> <<>>]

UNEXPECTED_FORMAT ==
    <<"Unable to process your request (server response in unexpected format)">>

\* the value Client.info returns for the response r
info(r) ==
    IF truthy(r)
    THEN LET ix == get_indices_from_info(r)
         IN  IF ix[1] < 0 \/ ix[2] < 0 \/ ix[3] < 0
             THEN [server_info |-> NoServerInfo, error_message |-> UNEXPECTED_FORMAT]
             ELSE [server_info |-> [present |-> TRUE,
                                    version |-> PySlice(r, ix[1], ix[2]),
                                    name |-> PySlice(r, ix[3], Len(r))],
                   error_message |-> <<>>]
    ELSE [server_info |-> NoServerInfo, error_message |-> GENERIC_ERROR]

(***************************************************************************)
(* The slash commands of main.py and the Client methods they call          *)
(***************************************************************************)
Handlers == {"info", "online", "save", "shutdown", "announce", "kick",
             "ban_player", "kill"}

\* message.replace(" ", "_")
replace_spaces(message) ==
    [i \in 1..Len(message) |-> IF message[i] = " " THEN "_" ELSE message[i]]

\* the arguments a handler may be invoked with
Args(h) ==
    IF h \in {"kick", "ban_player"}
    THEN { [steam_id |-> s, seconds |-> <<>>, message |-> <<>>] : s \in SteamIds }
    ELSE IF h = "shutdown"
    THEN { [steam_id |-> <<>>, seconds |-> <<"5">>, message |-> <<"g", " ", "g">>] }
    ELSE IF h = "announce"
    THEN { [steam_id |-> <<>>, seconds |-> <<>>, message |-> <<"h", " ", "i">>] }
    ELSE { [steam_id |-> <<>>, seconds |-> <<>>, message |-> <<>>] }

\* the first Client method a handler calls
FirstMethod(h) ==
    CASE h = "info" -> "info"
      [] h = "online" -> "online"
      [] h = "save" -> "save"
      [] h = "shutdown" -> "shutdown"
      [] h = "announce" -> "announce"
      [] h = "kick" -> "online"
      [] h = "ban_player" -> "online"
      [] h = "kill" -> "force_stop"
      [] h = "status" -> "info"

\* the command string a Client method passes to console.command
CommandText(m, a) ==
    CASE m = "info" -> <<"Info">>
      [] m = "save" -> <<"Save">>
      [] m = "online" -> <<"ShowPlayers">>
      [] m = "announce" -> <<"Broadcast", " ">> \o a.message
      [] m = "kick" -> <<"KickPlayer", " ">> \o a.steam_id
      [] m = "ban" -> <<"BanPlayer", " ">> \o a.steam_id
      [] m = "shutdown" -> <<"Shutdown", " ">> \o a.seconds \o <<" ">> \o a.message
      [] m = "force_stop" -> <<"DoExit">>

\* what the game server answers to the command of method m
ServerReply(m) ==
    CASE m = "info" -> server.info
      [] m = "online" -> server.players
      [] OTHER -> server.plain

\* the value a Client method returns once it has read the response r
MethodResult(m, r) ==
    CASE m = "info" ->
            [kind |-> "return", value |-> <<>>, players |-> EmptyDict,
             server_info |-> info(r).server_info, error |-> info(r).error_message]
      [] m = "online" ->
            [kind |-> "return", value |-> <<>>, players |-> online(r).players,
             server_info |-> NoServerInfo, error |-> online(r).error_message]
      [] OTHER ->
            [kind |-> "return", value |-> IF truthy(r) THEN r ELSE GENERIC_ERROR,
             players |-> EmptyDict, server_info |-> NoServerInfo, error |-> <<>>]

\* a Client method left by an exception
Raised(exc) ==
    [kind |-> "raise", value |-> <<exc>>, players |-> EmptyDict,
     server_info |-> NoServerInfo, error |-> <<>>]

NoRet ==
    [kind |-> "none", value |-> <<>>, players |-> EmptyDict,
     server_info |-> NoServerInfo, error |-> <<>>]

NoReply == [kind |-> "none", title |-> <<>>, text |-> <<>>, players |-> EmptyDict]

NoArg == [steam_id |-> <<>>, seconds |-> <<>>, message |-> <<>>]

\* a handler is invoked: interaction.response.defer(), Client(config=config),
\* and the call of its first Client method begins
Start(h) ==
    /\ pc = "idle"
    /\ ncalls < MaxCalls
    /\ \E a \in Args(h) :
          arg' = [a EXCEPT !.message = replace_spaces(a.message)]
    /\ handler' = h
    /\ method' = FirstMethod(h)
    /\ pc' = "open"
    /\ cur' = 0
    /\ res' = <<>>
    /\ fault' = "none"
    /\ ret' = NoRet
    /\ errlog' = <<>>
    /\ player_ign' = <<>>
    /\ reply' = NoReply
    /\ ncalls' = ncalls + 1
    /\ UNCHANGED <<server, conns>>
    /\ UNCHANGED svars
    /\ UNCHANGED avars

\* Client.open: Console(host, password, port, timeout) connects, or raises
Open ==
    /\ pc = "open"
    /\ \/ /\ conns' = Append(conns, [open |-> TRUE, cmds |-> <<>>])
          /\ cur' = Len(conns) + 1
          /\ pc' = "send"
          /\ UNCHANGED <<fault, ret>>
       \/ /\ fault' = ConnectionError
          /\ ret' = Raised(ConnectionError)
          /\ pc' = "raised"
          /\ UNCHANGED <<conns, cur>>
    /\ UNCHANGED <<server, handler, method, arg, res, errlog, player_ign, reply, ncalls>>
    /\ UNCHANGED svars
    /\ UNCHANGED avars

\* res = console.command(...): the command goes out on the Console; the server's
\* answer is read, or the transport raises and the method is left at once
Send ==
    /\ pc = "send"
    /\ conns' = [conns EXCEPT ![cur].cmds = Append(@, CommandText(method, arg))]
    /\ \/ /\ res' = ServerReply(method)
          /\ pc' = "close"
          /\ UNCHANGED <<fault, ret>>
       \/ /\ fault' = TransportError
          /\ ret' = Raised(TransportError)
          /\ pc' = "raised"
          /\ UNCHANGED res
    /\ UNCHANGED <<server, cur, handler, method, arg, errlog, player_ign, reply, ncalls>>
    /\ UNCHANGED svars
    /\ UNCHANGED avars

\* console.close()
Close ==
    /\ pc = "close"
    /\ conns' = [conns EXCEPT ![cur].open = FALSE]
    /\ pc' = "return"
    /\ UNCHANGED <<server, cur, handler, method, arg, res, fault, ret, errlog,
                   player_ign, reply, ncalls>>
    /\ UNCHANGED svars
    /\ UNCHANGED avars

\* the rest of the Client method: parse the response and return
Return ==
    /\ pc = "return"
    /\ ret' = MethodResult(method, res)
    /\ errlog' = IF method = "online" THEN errlog \o online(res).logged ELSE errlog
    /\ pc' = "after"
    /\ UNCHANGED <<server, conns, cur, handler, method, arg, res, fault, player_ign,
                   reply, ncalls>>
    /\ UNCHANGED svars
    /\ UNCHANGED avars

\* players.get(steam_id, "")
dict_get(players, steam_id) ==
    IF steam_id \in DOMAIN players THEN players[steam_id] ELSE <<>>

\* kick / ban_player: get_ign_from_steam_id has returned; the kick or ban follows
Lookup ==
    /\ pc = "after"
    /\ handler \in {"kick", "ban_player"}
    /\ method = "online"
    /\ player_ign' = dict_get(ret.players, arg.steam_id)
    /\ method' = IF handler = "kick" THEN "kick" ELSE "ban"
    /\ pc' = "open"
    /\ cur' = 0
    /\ fault' = "none"
    /\ UNCHANGED <<server, conns, handler, arg, res, ret, errlog, reply, ncalls>>
    /\ UNCHANGED svars
    /\ UNCHANGED avars

\* the message a handler sends once its last Client method has returned
Embed(h, r, ign) ==
    CASE h = "info" ->
            IF r.server_info.present
            THEN [kind |-> "embed", title |-> r.server_info.name,
                  text |-> <<"Server Version: ">> \o r.server_info.version,
                  players |-> EmptyDict]
            ELSE [kind |-> "content", title |-> <<>>,
                  text |-> IF truthy(r.error) THEN r.error ELSE generic_bot_error,
                  players |-> EmptyDict]
      [] h = "online" ->
            [kind |-> "embed", title |-> <<"Players Online">>,
             text |-> <<"Player(s) Online: ">>, players |-> r.players]
      [] h = "kick" ->
            [kind |-> "embed", title |-> <<"Kicking player ">> \o ign,
             text |-> r.value, players |-> EmptyDict]
      [] h = "ban_player" ->
            [kind |-> "embed", title |-> <<"Banning player ">> \o ign,
             text |-> r.value, players |-> EmptyDict]
      [] OTHER ->
            [kind |-> "embed", title |-> <<h>>, text |-> r.value,
             players |-> EmptyDict]

\* the handler builds its embed and sends it
Reply ==
    /\ pc = "after"
    /\ handler \in Handlers
    /\ ~(handler \in {"kick", "ban_player"} /\ method = "online")
    /\ reply' = Embed(handler, ret, player_ign)
    /\ pc' = "idle"
    /\ UNCHANGED <<server, conns, cur, handler, method, arg, res, fault, ret, errlog,
                   player_ign, ncalls>>
    /\ UNCHANGED svars
    /\ UNCHANGED avars

\* except Exception as e: log.error(...); the default error text is sent
Except ==
    /\ pc = "raised"
    /\ handler \in Handlers
    /\ errlog' = Append(errlog, ret.value)
    /\ reply' = [kind |-> "content", title |-> <<>>, text |-> generic_bot_error,
                 players |-> EmptyDict]
    /\ pc' = "idle"
    /\ UNCHANGED <<server, conns, cur, handler, method, arg, res, fault, ret,
                   player_ign, ncalls>>
    /\ UNCHANGED svars
    /\ UNCHANGED avars

(***************************************************************************)
(* /status: Client.status_checks and the checks it runs                    *)
(***************************************************************************)
\* Python's None where a str or a bool is expected
None == "None"

\* config["expected_public_ip"]
expected_public_ip == "203.0.113.7"

\* the two IP-echo endpoints
Ipify == "https://api.ipify.org/"
Ipecho == "https://ipecho.net/plain"

\* a 50-character body, as an HTML error page would be
LongBody == "<html><body><h1>503 Service Unavailable</h1></body"

\* a 45-character body: the longest still taken as an address
Body45 == "0000:0000:0000:0000:0000:ffff:192.168.100.200"

\* what requests.get(url) may do: return a body, or raise
HttpOutcomes ==
    { [kind |-> "text", text |-> t] :
        t \in {expected_public_ip, "198.51.100.9", Body45, LongBody} }
    \cup { [kind |-> "Timeout", text |-> ""],
           [kind |-> "RequestException", text |-> ""] }

\* fetch_current_ip without the check of len(current_ip)
fetch_current_ip_NoLengthCheck(outcome, expected_ip) ==
    LET current_ip == IF outcome.kind = "text" THEN outcome.text ELSE None
        ip_match == IF outcome.kind = "text"
                    THEN IF current_ip = expected_ip THEN "True" ELSE "False"
                    ELSE None
    IN  IF current_ip = None
        THEN [raised |-> "TypeError", current_ip |-> None, ip_match |-> None]
        ELSE [raised |-> "none", current_ip |-> current_ip, ip_match |-> ip_match]

\* fetch_current_ip(website_link, expected_ip), given what requests.get did
fetch_current_ip(outcome, expected_ip) ==
    LET current_ip == IF outcome.kind = "text" THEN outcome.text ELSE None
        ip_match == IF outcome.kind = "text"
                    THEN IF current_ip = expected_ip THEN "True" ELSE "False"
                    ELSE None
    IN  IF current_ip = None
        THEN \* len(None)
             [raised |-> "TypeError", current_ip |-> None, ip_match |-> None]
        ELSE IF Len(current_ip) > 45
        THEN [raised |-> "none", current_ip |-> None, ip_match |-> None]
        ELSE [raised |-> "none", current_ip |-> current_ip, ip_match |-> ip_match]

\* `not ip_match`
not_ip_match(ip_match) == ip_match # "True"

\* check_current_ip dropping the result of the retry
retry_override_Dropped(ip_match, ip_match_retry) == ip_match

\* check_current_ip after the retry: a matching retry overrides, any other is ignored
retry_override(ip_match, ip_match_retry) ==
    IF ip_match_retry = "True" THEN ip_match_retry ELSE ip_match

\* one line of the report
Line(marker, what, value) == [marker |-> marker, what |-> what, value |-> value]

\* an item of description_list: a str (one or more lines), or something else
StrItem(lines) == [kind |-> "str", lines |-> lines]
TupleItem == [kind |-> "tuple", lines |-> <<>>]

\* the `match ip_match` statement of check_current_ip
ip_line(ip_match, current_ip) ==
    CASE ip_match = "True" -> Line("pass", "IP", <<>>)
      [] ip_match = "False" -> Line("fail", "IP", <<"Changed to: ", current_ip>>)
      [] ip_match = None -> Line("unknown", "IP", <<"Couldn't verify server IP.">>)

\* the classification a report line of the IP check stands for
IpVerdict(line) ==
    CASE line.marker = "pass" -> "Match"
      [] line.marker = "fail" -> "Mismatch"
      [] line.marker = "unknown" -> "Unknown"

NoResult == [kind |-> "none", exc |-> "none", item |-> StrItem(<<>>)]
Returned(item) == [kind |-> "return", exc |-> "none", item |-> item]
Threw(exc) == [kind |-> "raise", exc |-> exc, item |-> StrItem(<<>>)]

NoStatus == [kind |-> "none", exc |-> "none", title |-> "", description |-> <<>>]

NoIpLocals == [current_ip |-> None, ip_match |-> None]

NoProcEnv == [running |-> TRUE, findable |-> TRUE]

\* check_cpu_usage has not been called
NoCpuSample == [affinity |-> [kind |-> "none", count |-> 0], cpu_count |-> 0, raw |-> 0]

\* the slash command /status starts: Client(config=config), status_checks(palworld_info),
\* and the Info probe begins
StartStatus ==
    /\ pc = "idle"
    /\ ncalls < MaxCalls
    /\ handler' = "status"
    /\ method' = "info"
    /\ arg' = NoArg
    /\ pc' = "open"
    /\ cur' = 0
    /\ res' = <<>>
    /\ fault' = "none"
    /\ ret' = NoRet
    /\ errlog' = <<>>
    /\ player_ign' = <<>>
    /\ reply' = NoReply
    /\ ncalls' = ncalls + 1
    /\ embed_title' = "unbound"
    /\ description_list' = <<>>
    /\ http_log' = <<>>
    /\ ip_locals' = NoIpLocals
    /\ ip_result' = NoResult
    /\ resources_result' = NoResult
    /\ proc_env' = NoProcEnv
    /\ cpu_usage' = <<>>
    /\ cpu_sample' = NoCpuSample
    /\ status_out' = NoStatus
    /\ UNCHANGED <<server, conns, CONFIG, palworld_info>>
    /\ UNCHANGED avars

\* where status_checks goes after the "[Checks]" separator
AfterInfo ==
    IF CONFIG.check_public_ip THEN "ip_primary"
    ELSE IF CONFIG.check_cpu \/ CONFIG.check_ram THEN "resources"
    ELSE "join"

AfterIp == IF CONFIG.check_cpu \/ CONFIG.check_ram THEN "resources" ELSE "join"

\* status_checks, the try block around self.info() and the separator
StatusInfo ==
    /\ handler = "status"
    /\ pc \in {"after", "raised"}
    /\ LET checks == IF CONFIG.check_public_ip \/ CONFIG.check_cpu \/ CONFIG.check_ram
                     THEN <<StrItem(<<Line("none", "[Checks]", <<>>)>>)>>
                     ELSE <<>>
       IN  \/ /\ pc = "after"
              /\ ret.server_info.present
              /\ embed_title' = "Server is online."
              /\ description_list' =
                    <<StrItem(<<Line("none", "info",
                                     ret.server_info.name \o ret.server_info.version)>>)>>
                    \o checks
              /\ UNCHANGED errlog
           \/ /\ pc = "after"
              /\ ~ret.server_info.present
              /\ description_list' = checks
              /\ UNCHANGED <<embed_title, errlog>>
           \/ /\ pc = "raised"
              /\ errlog' = Append(errlog, ret.value)
              /\ embed_title' = "Server is unavailable."
              /\ description_list' =
                    <<StrItem(<<Line("none", "unavailable",
                                     <<"We couldn't contact the server.">>)>>)>>
                    \o checks
    /\ pc' = AfterInfo
    /\ UNCHANGED <<server, conns, cur, handler, method, arg, res, fault, ret,
                   player_ign, reply, ncalls>>
    /\ UNCHANGED <<CONFIG, palworld_info, http_log, ip_locals, ip_result,
                   resources_result, proc_env, cpu_usage,
                   cpu_sample, status_out>>
    /\ UNCHANGED avars

\* an exception leaves status_checks: nothing in it or in the handler catches it
StatusRaise(exc) ==
    /\ status_out' = [kind |-> "raise", exc |-> exc, title |-> "", description |-> <<>>]
    /\ pc' = "status_end"

\* check_current_ip: the request to the primary endpoint
FetchPrimary ==
    /\ pc = "ip_primary"
    /\ \E outcome \in HttpOutcomes :
          LET r == fetch_current_ip(outcome, expected_public_ip)
          IN  /\ http_log' = Append(http_log, [url |-> Ipify, outcome |-> outcome])
              /\ \/ /\ r.raised = "none"
                    /\ ip_locals' = [current_ip |-> r.current_ip, ip_match |-> r.ip_match]
                    /\ pc' = IF not_ip_match(r.ip_match) THEN "ip_secondary"
                             ELSE "ip_classify"
                    /\ UNCHANGED <<ip_result, status_out>>
                 \/ /\ r.raised # "none"
                    /\ ip_result' = Threw(r.raised)
                    /\ StatusRaise(r.raised)
                    /\ UNCHANGED ip_locals
    /\ UNCHANGED cvars
    /\ UNCHANGED <<CONFIG, palworld_info, embed_title, description_list,
                   resources_result, proc_env, cpu_usage,
                   cpu_sample>>
    /\ UNCHANGED avars

\* check_current_ip: the request to the fallback endpoint, made when `not ip_match`
FetchSecondary ==
    /\ pc = "ip_secondary"
    /\ \E outcome \in HttpOutcomes :
          LET r == fetch_current_ip(outcome, expected_public_ip)
          IN  /\ http_log' = Append(http_log, [url |-> Ipecho, outcome |-> outcome])
              /\ \/ /\ r.raised = "none"
                    /\ ip_locals' = [ip_locals EXCEPT
                                        !.ip_match = retry_override(@, r.ip_match)]
                    /\ pc' = "ip_classify"
                    /\ UNCHANGED <<ip_result, status_out>>
                 \/ /\ r.raised # "none"
                    /\ ip_result' = Threw(r.raised)
                    /\ StatusRaise(r.raised)
                    /\ UNCHANGED ip_locals
    /\ UNCHANGED cvars
    /\ UNCHANGED <<CONFIG, palworld_info, embed_title, description_list,
                   resources_result, proc_env, cpu_usage,
                   cpu_sample>>
    /\ UNCHANGED avars

\* check_current_ip: the match statement; status_checks appends the line
IpClassify ==
    /\ pc = "ip_classify"
    /\ LET item == StrItem(<<ip_line(ip_locals.ip_match, ip_locals.current_ip)>>)
       IN  /\ ip_result' = Returned(item)
           /\ description_list' = Append(description_list, item)
    /\ pc' = AfterIp
    /\ UNCHANGED cvars
    /\ UNCHANGED <<CONFIG, palworld_info, embed_title, http_log, ip_locals,
                   resources_result, proc_env, cpu_usage,
                   cpu_sample, status_out>>
    /\ UNCHANGED avars

(***************************************************************************)
(* The resource check                                                      *)
(***************************************************************************)
\* what process_name.cpu_affinity() may do
AffinityOutcomes ==
    { [kind |-> "ok", count |-> n] : n \in {1, 2} }
    \cup { [kind |-> "AccessDenied", count |-> 0] }

\* psutil.cpu_count()
CpuCounts == {16}

\* process_name.cpu_percent(interval=2), in tenths of a percent
RawTenths == {607, 900, 1000, 2400}

\* psutil.virtual_memory().free
FreeBytes == {1073741824, 1073741825}

\* the for loop of check_cpu_usage: cpu_usage = num / den is halved until
\* it is <= 100, range(10) bounding the number of halvings left
RECURSIVE halve(_, _, _)
halve(num, den, left) ==
    IF left = 0 THEN <<num, den>>
    ELSE IF num <= 100 * (2 * den) THEN <<num, 2 * den>>
    ELSE halve(num, 2 * den, left - 1)

\* check_cpu_usage without the clamp of core_count to 4
check_cpu_usage_NoClamp(affinity, cpu_count, raw) ==
    LET found == IF affinity.kind = "ok" THEN affinity.count ELSE cpu_count
        num == raw
        den == 10 * found
        q == IF num > 100 * den THEN halve(num, den, 10) ELSE <<num, den>>
    IN  q[1] \div q[2]

\* check_cpu_usage(process_name): raw is cpu_percent in tenths of a percent
check_cpu_usage(affinity, cpu_count, raw) ==
    LET found == IF affinity.kind = "ok" THEN affinity.count ELSE cpu_count
        core_count == IF found > 4 THEN 4 ELSE found
        num == raw
        den == 10 * core_count
        q == IF num > 100 * den THEN halve(num, den, 10) ELSE <<num, den>>
    IN  q[1] \div q[2]

\* the CPU line with the 80..100 band given the pass marker
cpu_line_WarnAsPass(usage) ==
    IF usage < 100 THEN Line("pass", "CPU", <<usage>>)
    ELSE Line("unknown", "CPU", <<>>)

\* the CPU line of check_current_resources
cpu_line(usage) ==
    IF usage < 50 THEN Line("pass", "CPU", <<usage>>)
    ELSE IF usage < 80 THEN Line("pass", "CPU", <<usage>>)
    ELSE IF usage < 100 THEN Line("fail", "CPU", <<usage>>)
    ELSE Line("unknown", "CPU", <<>>)

\* the RAM line of check_current_resources; the value stands for
\* convert_size(memory_info.free)
ram_line(free) ==
    IF free <= 1073741824 THEN Line("fail", "RAM", <<free>>)
    ELSE IF free > 1073741824 THEN Line("pass", "RAM", <<free>>)
    ELSE Line("unknown", "RAM", <<>>)

\* fetch_process_info(): the Process found by name, or False
fetch_process_info(findable) == IF findable THEN "Process" ELSE "False"

\* check_current_resources with the RAM line built ahead of the CPU line
check_current_resources_RamFirst(palworld_process, check_cpu, check_ram, env, m) ==
    IF palworld_process = "False"
    THEN Threw("AttributeError")
    ELSE LET process == IF env.running THEN palworld_process
                        ELSE fetch_process_info(env.findable)
         IN  IF process = "False"
             THEN Returned(TupleItem)
             ELSE Returned(StrItem(
                     (IF check_ram THEN <<ram_line(m.free)>> ELSE <<>>)
                     \o (IF check_cpu
                         THEN <<cpu_line(check_cpu_usage(m.affinity, m.cpu_count, m.raw))>>
                         ELSE <<>>)))

\* check_current_resources(palworld_process, check_cpu, check_ram), given the
\* operating system: env.running is is_running() of the tracked process,
\* env.findable whether a process of the server's name exists, and m what psutil
\* measures (affinity, cpu_count, raw, free)
check_current_resources(palworld_process, check_cpu, check_ram, env, m) ==
    IF palworld_process = "False"
    THEN \* False.is_running()
         Threw("AttributeError")
    ELSE LET process == IF env.running THEN palworld_process
                        ELSE fetch_process_info(env.findable)
         IN  IF process = "False"
             THEN \* return cpu_usage, ram_available
                  Returned(TupleItem)
             ELSE Returned(StrItem(
                     (IF check_cpu
                      THEN <<cpu_line(check_cpu_usage(m.affinity, m.cpu_count, m.raw))>>
                      ELSE <<>>)
                     \o (IF check_ram THEN <<ram_line(m.free)>> ELSE <<>>)))

ProcEnvs ==
    { [running |-> TRUE, findable |-> TRUE],
      [running |-> FALSE, findable |-> TRUE],
      [running |-> FALSE, findable |-> FALSE] }

\* status_checks calls check_current_resources and appends what it returns
Resources ==
    /\ pc = "resources"
    /\ \E env \in ProcEnvs, affinity \in AffinityOutcomes, cpu_count \in CpuCounts,
          raw \in RawTenths, free \in FreeBytes :
          LET m == [affinity |-> affinity, cpu_count |-> cpu_count, raw |-> raw,
                    free |-> free]
              r == check_current_resources(palworld_info, CONFIG.check_cpu,
                                           CONFIG.check_ram, env, m)
          IN  /\ proc_env' = env
              /\ cpu_usage' = IF r.kind = "return" /\ r.item.kind = "str" /\ CONFIG.check_cpu
                               THEN <<check_cpu_usage(affinity, cpu_count, raw)>>
                               ELSE <<>>
              /\ cpu_sample' = IF r.kind = "return" /\ r.item.kind = "str" /\ CONFIG.check_cpu
                                THEN [affinity |-> affinity, cpu_count |-> cpu_count,
                                      raw |-> raw]
                                ELSE NoCpuSample
              /\ resources_result' = r
              /\ \/ /\ r.kind = "return"
                    /\ description_list' = Append(description_list, r.item)
                    /\ pc' = "join"
                    /\ UNCHANGED status_out
                 \/ /\ r.kind = "raise"
                    /\ StatusRaise(r.exc)
                    /\ UNCHANGED description_list
    /\ UNCHANGED cvars
    /\ UNCHANGED <<CONFIG, palworld_info, embed_title, http_log, ip_locals, ip_result>>
    /\ UNCHANGED avars

\* the lines of '\n'.join(description_list)
RECURSIVE joined(_)
joined(items) ==
    IF Len(items) = 0 THEN <<>> ELSE items[1].lines \o joined(Tail(items))

\* status_checks: embed_description = '\n'.join(description_list) and the return
Join ==
    /\ pc = "join"
    /\ \/ /\ \E i \in 1..Len(description_list) : description_list[i].kind # "str"
          /\ StatusRaise("TypeError")
       \/ /\ \A i \in 1..Len(description_list) : description_list[i].kind = "str"
          /\ embed_title = "unbound"
          /\ StatusRaise("UnboundLocalError")
       \/ /\ \A i \in 1..Len(description_list) : description_list[i].kind = "str"
          /\ embed_title # "unbound"
          /\ status_out' = [kind |-> "return", exc |-> "none", title |-> embed_title,
                            description |-> joined(description_list)]
          /\ pc' = "status_end"
    /\ UNCHANGED cvars
    /\ UNCHANGED <<CONFIG, palworld_info, embed_title, description_list, http_log,
                   ip_locals, ip_result, resources_result, proc_env, cpu_usage,
                   cpu_sample>>
    /\ UNCHANGED avars

\* the status handler sends the embed; an exception out of status_checks leaves
\* the handler and nothing is sent
StatusReply ==
    /\ pc = "status_end"
    /\ reply' = IF status_out.kind = "return"
                THEN [kind |-> "embed", title |-> <<status_out.title>>,
                      text |-> status_out.description, players |-> EmptyDict]
                ELSE [kind |-> "unhandled", title |-> <<status_out.exc>>,
                      text |-> <<>>, players |-> EmptyDict]
    /\ pc' = "idle"
    /\ UNCHANGED <<server, conns, cur, handler, method, arg, res, fault, ret, errlog,
                   player_ign, ncalls>>
    /\ UNCHANGED svars
    /\ UNCHANGED avars

InitStatusVars ==
    /\ embed_title = "unbound"
    /\ description_list = <<>>
    /\ http_log = <<>>
    /\ ip_locals = NoIpLocals
    /\ ip_result = NoResult
    /\ resources_result = NoResult
    /\ proc_env = NoProcEnv
    /\ cpu_usage = <<>>
    /\ cpu_sample = NoCpuSample
    /\ status_out = NoStatus

NoAsyncCmd == [method |-> "none", text |-> <<>>]

NoAsyncRet == [kind |-> "none", value |-> <<>>]

\* AsyncClient.__init__: the AsyncConsole is constructed, not yet opened
InitAsyncVars ==
    /\ CONSOLE = [open |-> FALSE, session |-> 0]
    /\ async_pc = "idle"
    /\ async_cmd = NoAsyncCmd
    /\ async_ret = NoAsyncRet
    /\ console_log = <<>>
    /\ async_calls = 0

Configs ==
    { [check_public_ip |-> a, check_cpu |-> b, check_ram |-> c] :
        a \in BOOLEAN, b \in BOOLEAN, c \in BOOLEAN }

\* the game servers the command flow is run against
Servers ==
    { [info |-> i, players |-> p, plain |-> t] :
        i \in InfoSamples, p \in RosterSamples, t \in PlainResponses }

InitClient ==
    /\ conns = <<>>
    /\ cur = 0
    /\ pc = "idle"
    /\ handler = "none"
    /\ method = "none"
    /\ arg = NoArg
    /\ res = <<>>
    /\ fault = "none"
    /\ ret = NoRet
    /\ errlog = <<>>
    /\ player_ign = <<>>
    /\ reply = NoReply
    /\ ncalls = 0

\* the command flow: every handler but /status, whose checks are switched off
Init ==
    /\ server \in Servers
    /\ InitClient
    /\ CONFIG = [check_public_ip |-> FALSE, check_cpu |-> FALSE, check_ram |-> FALSE]
    /\ palworld_info = "Process"
    /\ InitStatusVars
    /\ InitAsyncVars

Next ==
    \/ \E h \in Handlers : Start(h)
    \/ Open
    \/ Send
    \/ Close
    \/ Return
    \/ Lookup
    \/ Reply
    \/ Except

Spec == Init /\ [][Next]_vars

\* /status under every configuration of the checks
InitStatus ==
    /\ server \in { [info |-> i, players |-> <<>>, plain |-> <<>>] : i \in InfoSamples }
    /\ InitClient
    /\ CONFIG \in Configs
    /\ palworld_info \in {"Process", "False"}
    /\ InitStatusVars
    /\ InitAsyncVars

NextStatus ==
    \/ StartStatus
    \/ Open
    \/ Send
    \/ Close
    \/ Return
    \/ StatusInfo
    \/ FetchPrimary
    \/ FetchSecondary
    \/ IpClassify
    \/ Resources
    \/ Join
    \/ StatusReply

SpecStatus == InitStatus /\ [][NextStatus]_vars

(***************************************************************************)
(* /online against generated ShowPlayers responses                         *)
(***************************************************************************)
\* "header\nAlice,100,76561,\n"
HeaderAliceComma ==
    <<"h", "e", "a", "d", "e", "r", "\n",
      "A", "l", "i", "c", "e", ",", "1", "0", "0", ",", "7", "6", "5", "6", "1", ",",
      "\n">>

\* "header\nAlice,100,76561\n"
HeaderAlice ==
    <<"h", "e", "a", "d", "e", "r", "\n",
      "A", "l", "i", "c", "e", ",", "1", "0", "0", ",", "7", "6", "5", "6", "1",
      "\n">>

\* "header\nBob,Jr,200,76562\n"
HeaderBobJr ==
    <<"h", "e", "a", "d", "e", "r", "\n",
      "B", "o", "b", ",", "J", "r", ",", "2", "0", "0", ",", "7", "6", "5", "6", "2",
      "\n">>

\* "header\nAl,1,7\nBo,2,7\n": two players under one steam_id
HeaderAlBo ==
    <<"h", "e", "a", "d", "e", "r", "\n",
      "A", "l", ",", "1", ",", "7", "\n",
      "B", "o", ",", "2", ",", "7", "\n">>

RosterAlphabet == {"a", ",", "\n"}

\* the ShowPlayers responses: every text over the alphabet up to the bound, and
\* the named ones
RosterTexts ==
    UNION { [1..n -> RosterAlphabet] : n \in 0..MaxRosterLen }
    \cup {HeaderAliceComma, HeaderAlice, HeaderBobJr, HeaderAlBo}

InitRoster ==
    /\ server \in { [info |-> <<>>, players |-> p, plain |-> <<>>] : p \in RosterTexts }
    /\ InitClient
    /\ CONFIG = [check_public_ip |-> FALSE, check_cpu |-> FALSE, check_ram |-> FALSE]
    /\ palworld_info = "Process"
    /\ InitStatusVars
    /\ InitAsyncVars

NextRoster ==
    \/ Start("online")
    \/ Open
    \/ Send
    \/ Close
    \/ Return
    \/ Reply
    \/ Except

SpecRoster == InitRoster /\ [][NextRoster]_vars

(***************************************************************************)
(* /info against generated Info responses                                  *)
(***************************************************************************)
\* "[1.2.3] MyServer"
VersionMyServer ==
    <<"[", "1", ".", "2", ".", "3", "]", " ", "M", "y", "S", "e", "r", "v", "e", "r">>

InfoAlphabet == {"[", "]", "v", " "}

\* the Info responses: every text over the alphabet up to the bound, and the
\* named one
InfoTexts ==
    UNION { [1..n -> InfoAlphabet] : n \in 0..MaxInfoLen } \cup {VersionMyServer}

InitInfo ==
    /\ server \in { [info |-> i, players |-> <<>>, plain |-> <<>>] : i \in InfoTexts }
    /\ InitClient
    /\ CONFIG = [check_public_ip |-> FALSE, check_cpu |-> FALSE, check_ram |-> FALSE]
    /\ palworld_info = "Process"
    /\ InitStatusVars
    /\ InitAsyncVars

NextInfo ==
    \/ Start("info")
    \/ Open
    \/ Send
    \/ Close
    \/ Return
    \/ Reply
    \/ Except

SpecInfo == InitInfo /\ [][NextInfo]_vars

(***************************************************************************)
(* AsyncClient: one AsyncConsole kept for the lifetime of the process      *)
(***************************************************************************)
MaxAsyncCalls == 4

AsyncMethods == {"info", "save", "online", "announce", "kick", "ban", "shutdown",
                 "force_stop"}

\* the arguments an AsyncClient method may be called with
AsyncArgs(m) ==
    CASE m \in {"kick", "ban"} -> Args("kick")
      [] m = "shutdown" -> Args("shutdown")
      [] m = "announce" -> Args("announce")
      [] OTHER -> {NoArg}

\* an entry of console_log: the operation, whether CONSOLE was open before and
\* after it, and the session CONSOLE held after it
Event(op, before, after, session) ==
    [op |-> op, before |-> before, after |-> after, session |-> session]

\* check_console_ready with open() awaited whatever is_open() says
needs_open_Always(is_open) == TRUE

\* check_console_ready: `if not self.CONSOLE.is_open()`
needs_open(is_open) == ~is_open

\* one of the admin commands of AsyncClient is called
AsyncCall ==
    /\ async_pc = "idle"
    /\ async_calls < MaxAsyncCalls
    /\ \E m \in AsyncMethods : \E a \in AsyncArgs(m) :
          async_cmd' = [method |-> m, text |-> CommandText(m, a)]
    /\ async_ret' = NoAsyncRet
    /\ async_calls' = async_calls + 1
    /\ async_pc' = "check"
    /\ UNCHANGED <<CONSOLE, console_log>>
    /\ UNCHANGED <<gvars, svars>>

\* await self.check_console_ready(): is_open() is asked, and open() awaited
\* if the answer is no; open() connects a new session, or raises and the
\* command method is left
check_console_ready ==
    /\ async_pc = "check"
    /\ LET asked == Event("is_open", CONSOLE.open, CONSOLE.open, CONSOLE.session)
       IN  \/ /\ ~needs_open(CONSOLE.open)
              /\ console_log' = Append(console_log, asked)
              /\ async_pc' = "command"
              /\ UNCHANGED <<CONSOLE, async_ret>>
           \/ /\ needs_open(CONSOLE.open)
              /\ CONSOLE' = [open |-> TRUE, session |-> CONSOLE.session + 1]
              /\ console_log' = console_log \o
                    <<asked, Event("open", CONSOLE.open, TRUE, CONSOLE.session + 1)>>
              /\ async_pc' = "command"
              /\ UNCHANGED async_ret
           \/ /\ needs_open(CONSOLE.open)
              /\ console_log' = console_log \o
                    <<asked, Event("open", CONSOLE.open, CONSOLE.open, CONSOLE.session)>>
              /\ async_ret' = [kind |-> "raise", value |-> <<ConnectionError>>]
              /\ async_pc' = "idle"
              /\ UNCHANGED CONSOLE
    /\ UNCHANGED <<async_cmd, async_calls>>
    /\ UNCHANGED <<gvars, svars>>

\* res = await self.CONSOLE.command(...) and `return res if res else
\* self.GENERIC_ERROR`; or the transport raises, and whether the AsyncConsole
\* still counts as open afterwards is up to the library
AsyncCommand ==
    /\ async_pc = "command"
    /\ \/ /\ LET r == ServerReply(async_cmd.method)
             IN  async_ret' = [kind |-> "return",
                               value |-> IF truthy(r) THEN r ELSE GENERIC_ERROR]
          /\ console_log' = Append(console_log,
                Event("command", CONSOLE.open, CONSOLE.open, CONSOLE.session))
          /\ UNCHANGED CONSOLE
       \/ /\ async_ret' = [kind |-> "raise", value |-> <<TransportError>>]
          /\ \E still \in BOOLEAN :
                /\ CONSOLE' = [CONSOLE EXCEPT !.open = still]
                /\ console_log' = Append(console_log,
                      Event("command", CONSOLE.open, still, CONSOLE.session))
    /\ async_pc' = "idle"
    /\ UNCHANGED <<async_cmd, async_calls>>
    /\ UNCHANGED <<gvars, svars>>

\* AsyncClient.close: await self.CONSOLE.close()
AsyncClose ==
    /\ async_pc = "idle"
    /\ async_calls < MaxAsyncCalls
    /\ CONSOLE' = [CONSOLE EXCEPT !.open = FALSE]
    /\ console_log' = Append(console_log,
          Event("close", CONSOLE.open, FALSE, CONSOLE.session))
    /\ async_cmd' = [method |-> "close", text |-> <<>>]
    /\ async_ret' = [kind |-> "return", value |-> <<>>]
    /\ async_calls' = async_calls + 1
    /\ UNCHANGED async_pc
    /\ UNCHANGED <<gvars, svars>>

InitAsync ==
    /\ server \in Servers
    /\ InitClient
    /\ CONFIG = [check_public_ip |-> FALSE, check_cpu |-> FALSE, check_ram |-> FALSE]
    /\ palworld_info = "Process"
    /\ InitStatusVars
    /\ InitAsyncVars

NextAsync ==
    \/ AsyncCall
    \/ check_console_ready
    \/ AsyncCommand
    \/ AsyncClose

SpecAsync == InitAsync /\ [][NextAsync]_vars

(***************************************************************************)
(* check_cpu_usage against generated measurements                          *)
(***************************************************************************)
\* what process_name.cpu_affinity() may do: a list of cores, AccessDenied, or
\* another exception
SampleAffinities ==
    { [kind |-> "ok", count |-> n] : n \in {1, 2, 3, 4, 8} }
    \cup { [kind |-> k, count |-> 0] : k \in {"AccessDenied", "Exception"} }

\* psutil.cpu_count()
SampleCpuCounts == {2, 16}

\* process_name.cpu_percent(interval=2), in tenths of a percent: values at and
\* next to c * 100% * 2^j, the limits where one more halving is needed, and
\* 0%, 60.7% and 240%
SampleRaws ==
    { c * 1000 * (2 ^ j) + d : c \in 1..4, j \in {0, 1, 9, 10, 11}, d \in {-1, 0, 1} }
    \cup {0, 607, 2400}

InitCpu ==
    /\ server \in { [info |-> <<>>, players |-> <<>>, plain |-> <<>>] }
    /\ InitClient
    /\ CONFIG = [check_public_ip |-> FALSE, check_cpu |-> TRUE, check_ram |-> FALSE]
    /\ palworld_info = "Process"
    /\ embed_title = "unbound"
    /\ description_list = <<>>
    /\ http_log = <<>>
    /\ ip_locals = NoIpLocals
    /\ ip_result = NoResult
    /\ resources_result = NoResult
    /\ proc_env = NoProcEnv
    /\ cpu_usage = <<>>
    /\ cpu_sample \in [affinity : SampleAffinities, cpu_count : SampleCpuCounts,
                       raw : SampleRaws]
    /\ status_out = NoStatus
    /\ InitAsyncVars

\* cpu_usage = check_cpu_usage(palworld_process)
CheckCpuUsage ==
    /\ cpu_usage = <<>>
    /\ cpu_usage' = <<check_cpu_usage(cpu_sample.affinity, cpu_sample.cpu_count,
                                      cpu_sample.raw)>>
    /\ UNCHANGED <<CONFIG, palworld_info, embed_title, description_list, http_log,
                   ip_locals, ip_result, resources_result, proc_env, cpu_sample,
                   status_out>>
    /\ UNCHANGED <<gvars, avars>>

NextCpu == CheckCpuUsage

SpecCpu == InitCpu /\ [][NextCpu]_vars

(***************************************************************************)
(* Properties of the command flow                                          *)
(***************************************************************************)
\* the running Client method has ended, by a return or by an exception
MethodEnded == pc \in {"after", "raised"}

\* the Consoles on which close() has not been called
OpenConns == { i \in 1..Len(conns) : conns[i].open }

\* C1: once a command has opened the transport, the transport is closed before
\* the command ends, also when sending fails: no Console opened by a command
\* that has ended is still open.
C1_ClosedWhenCommandEnds ==
    \A i \in OpenConns : i = cur /\ pc \in {"send", "close"}

\* the outcome of a Client method is the generic failure
GenericFailure(r) ==
    /\ r.kind = "return"
    /\ \/ r.value = GENERIC_ERROR
       \/ r.error = GENERIC_ERROR

\* C2: when the transport raises on open or on send, the command returns the
\* generic failure; the exception does not reach the caller.
C2_TransportErrorIsGenericFailure ==
    (MethodEnded /\ fault # "none") => GenericFailure(ret)

\* C3: every command opens its own Console, sends exactly one command on it and
\* closes it before returning; no Console carries more than one command and at
\* most one Console is open at any time.
C3_OneCommandPerConnection ==
    /\ \A i \in 1..Len(conns) : Len(conns[i].cmds) <= 1
    /\ Cardinality(OpenConns) <= 1
    /\ (MethodEnded /\ cur # 0) =>
          /\ ~conns[cur].open
          /\ Len(conns[cur].cmds) = 1
    /\ (pc = "idle") => OpenConns = {}

(***************************************************************************)
(* Properties of /status                                                   *)
(***************************************************************************)
\* check_current_ip has ended, by a return or by an exception
IpCheckEnded == ip_result.kind # "none"

\* the classification check_current_ip returned
Verdict == IpVerdict(ip_result.item.lines[1])

\* every request of the IP check ended in a timeout or a network error
AllQueriesFailed ==
    /\ Len(http_log) >= 1
    /\ \A i \in 1..Len(http_log) :
          http_log[i].outcome.kind \in {"Timeout", "RequestException"}

\* C4: if every IP-echo query of an IP check ends in a timeout or a network
\* error, the check completes normally and yields Unknown.
C4_FailedLookupsYieldUnknown ==
    (IpCheckEnded /\ AllQueriesFailed) =>
        /\ ip_result.kind = "return"
        /\ Verdict = "Unknown"

\* status_checks is past the try block around self.info()
InfoProbeDone ==
    /\ handler = "status"
    /\ pc \in {"ip_primary", "ip_secondary", "ip_classify", "resources", "join",
               "status_end"}

\* the Info command succeeded and its response parsed
InfoSucceeded == ret.kind = "return" /\ ret.server_info.present

\* the first line of the report
FirstLineIs(what) ==
    /\ Len(description_list) >= 1
    /\ description_list[1].kind = "str"
    /\ description_list[1].lines[1].what = what

\* C5: the info probe alone determines the title: "online" with the
\* name/version line when Info succeeds and parses, "unavailable" with the
\* static line on any failure (transport error, empty or unparseable response).
C5_InfoProbeSetsTitle ==
    InfoProbeDone =>
        /\ InfoSucceeded =>
              embed_title = "Server is online." /\ FirstLineIs("info")
        /\ ~InfoSucceeded =>
              embed_title = "Server is unavailable." /\ FirstLineIs("unavailable")

\* status_checks has ended, by a return or by an exception
StatusEnded == status_out.kind # "none"

\* the resource check ran and the server process was neither running (or never
\* found at start-up) nor to be found by its name
ProcessMissing ==
    /\ resources_result.kind # "none"
    /\ palworld_info = "False" \/ ~proc_env.running
    /\ ~proc_env.findable

\* the report has no CPU and no RAM line
NoResourceLines(lines) ==
    \A i \in 1..Len(lines) : lines[i].what \notin {"CPU", "RAM"}

\* C6: if the server process is not running (or was never found) and cannot be
\* re-located, the resource lines are omitted and the report is still produced.
C6_MissingProcessOmitsResourceLines ==
    (StatusEnded /\ ProcessMissing) =>
        /\ status_out.kind = "return"
        /\ NoResourceLines(status_out.description)

\* the primary endpoint answered with a body of more than 45 characters
PrimaryTooLong ==
    /\ Len(http_log) >= 1
    /\ http_log[1].outcome.kind = "text"
    /\ Len(http_log[1].outcome.text) > 45

OtherAddress(outcome) ==
    /\ outcome.kind = "text"
    /\ Len(outcome.text) <= 45
    /\ outcome.text # expected_public_ip

\* the outcome of a request is the expected address
ExpectedAddress(outcome) ==
    outcome.kind = "text" /\ outcome.text = expected_public_ip

\* C8: the primary returning the expected address gives Match without a second
\* query; the primary returning another address makes the secondary be queried,
\* a secondary returning the expected address gives Match, and two addresses
\* other than the expected one give Mismatch.
C8_IpClassification ==
    IpCheckEnded =>
        /\ ExpectedAddress(http_log[1].outcome) =>
              /\ ip_result.kind = "return"
              /\ Verdict = "Match"
              /\ Len(http_log) = 1
        /\ OtherAddress(http_log[1].outcome) =>
              /\ Len(http_log) = 2
              /\ http_log[2].url = Ipecho
              /\ ExpectedAddress(http_log[2].outcome) =>
                    ip_result.kind = "return" /\ Verdict = "Match"
              /\ OtherAddress(http_log[2].outcome) =>
                    ip_result.kind = "return" /\ Verdict = "Mismatch"

C8_Witness ==
    /\ ip_result.kind = "return"
    /\ Len(http_log) = 2
    /\ OtherAddress(http_log[1].outcome)
    /\ ExpectedAddress(http_log[2].outcome)
    /\ Verdict = "Match"

(***************************************************************************)
(* Properties of the roster parser                                         *)
(***************************************************************************)
\* Client.online has returned
OnlineReturned == pc = "after" /\ method = "online"

\* the number of comma-separated fields of a line
Fields(line) == Len(split(line, ","))

\* the data lines of the response read: all lines but the first and the last
DataLines == LET all == split(res, "\n") IN SubSeq(all, 2, Len(all) - 1)

\* the positions of the data lines with fewer than 3 fields
Malformed == { i \in 1..Len(DataLines) : Fields(DataLines[i]) < 3 }

FirstMalformed == CHOOSE i \in Malformed : \A j \in Malformed : i <= j

\* C9: on a data line with fewer than 3 fields the parser stops, keeps the
\* entries of the earlier lines, and reports the line to the caller as an error
\* alongside the partial roster.
C9_MalformedLineReported ==
    (OnlineReturned /\ Malformed # {}) =>
        /\ ret.players =
              parse_lines(SubSeq(DataLines, 1, FirstMalformed - 1), EmptyDict).players
        /\ truthy(ret.error)

\* the response read is a header line, data lines of at least 3 fields, and a
\* trailing empty line
HeaderDataTrailer ==
    LET all == split(res, "\n")
    IN  /\ Len(all) >= 2
        /\ all[Len(all)] = <<>>
        /\ Malformed = {}

\* the last comma-separated field of a line
LastField(line) == LET words == split(line, ",") IN words[Len(words)]

\* C10 as stated: for a response of header, data lines and trailing empty line,
\* every entry of the roster has a non-empty steam_id key, and
\* "header\nAlice,100,76561,\n" yields exactly {"76561": "Alice"}.
C10_RosterKeysNonEmpty ==
    (OnlineReturned /\ HeaderDataTrailer) =>
        /\ \A k \in DOMAIN ret.players : k # <<>>
        /\ res = HeaderAliceComma =>
              ret.players = DictPut(EmptyDict, <<"7", "6", "5", "6", "1">>,
                                    <<"A", "l", "i", "c", "e">>)

\* C10 as amended: for a response of header, data lines and trailing empty
\* line, the header and the trailing line are discarded and the keys of the
\* roster are the last fields of the data lines, so a key is empty exactly when
\* a line ends in a comma; "header\nAlice,100,76561\n" yields exactly
\* {"76561": "Alice"} and "header\nAlice,100,76561,\n" yields {"": "Alice,100"}.
C10_RosterKeysAreLastFields ==
    (OnlineReturned /\ HeaderDataTrailer) =>
        /\ DOMAIN ret.players =
              { LastField(DataLines[i]) : i \in 1..Len(DataLines) }
        /\ res = HeaderAlice =>
              ret.players = DictPut(EmptyDict, <<"7", "6", "5", "6", "1">>,
                                    <<"A", "l", "i", "c", "e">>)
        /\ res = HeaderAliceComma =>
              ret.players = DictPut(EmptyDict, <<>>,
                                    <<"A", "l", "i", "c", "e", ",", "1", "0", "0">>)

C10_Witness ==
    /\ OnlineReturned
    /\ HeaderDataTrailer
    /\ res = HeaderAliceComma
    /\ <<>> \in DOMAIN ret.players

\* the data lines the parser reads: those ahead of the first line with fewer
\* than 3 fields
ParsedLines ==
    IF Malformed = {} THEN DataLines ELSE SubSeq(DataLines, 1, FirstMalformed - 1)

\* the display name of a line: its fields but the last two, rejoined with commas
NameOf(line) ==
    LET words == split(line, ",") IN join(",", SubSeq(words, 1, Len(words) - 2))

\* the positions of the parsed lines whose steam_id is k
LinesOf(k) == { i \in 1..Len(ParsedLines) : LastField(ParsedLines[i]) = k }

\* C16: a data line of more than 3 fields is entered under its last field with
\* all fields but the last two, rejoined with commas, as the name; a line of
\* exactly 3 fields is entered under its third field with its first field as
\* the name; the second-to-last field is in neither; "Bob,Jr,200,76562" gives
\* "Bob,Jr" under "76562"; and of two lines with the same steam_id the later
\* one's name is the one kept
C16_RosterNames ==
    OnlineReturned /\ truthy(res) =>
        /\ DOMAIN ret.players = { LastField(ParsedLines[i]) : i \in 1..Len(ParsedLines) }
        /\ \A k \in DOMAIN ret.players :
              \E i \in LinesOf(k) :
                  /\ \A j \in LinesOf(k) : j <= i
                  /\ LET words == split(ParsedLines[i], ",")
                     IN  /\ Len(words) > 3 => k = words[Len(words)]
                         /\ Len(words) > 3 => ret.players[k] = NameOf(ParsedLines[i])
                         /\ Len(words) = 3 => k = words[3]
                         /\ Len(words) = 3 => ret.players[k] = words[1]
        /\ res = HeaderBobJr =>
              ret.players = [k \in {<<"7", "6", "5", "6", "2">>} |->
                                <<"B", "o", "b", ",", "J", "r">>]
        /\ res = HeaderAlBo =>
              ret.players = [k \in {<<"7">>} |-> <<"B", "o">>]

\* "header\nBob,Jr,200,76562\n" was parsed: one entry, "Bob,Jr" under "76562"
C16_Witness ==
    /\ OnlineReturned
    /\ res = HeaderBobJr
    /\ DOMAIN ret.players = {<<"7", "6", "5", "6", "2">>}
    /\ ret.players[<<"7", "6", "5", "6", "2">>] = <<"B", "o", "b", ",", "J", "r">>

(***************************************************************************)
(* Properties of the server-info parser                                    *)
(***************************************************************************)
\* Client.info has returned
InfoReturned == pc = "after" /\ method = "info"

\* the positions of a character in the response read
Positions(char) == { i \in 1..Len(res) : res[i] = char }

\* the response read has a '[' followed later by a ']'
Bracketed == \E i \in Positions("[") : \E j \in Positions("]") : i < j

\* the position of the first '[' and of the first ']' after it
FirstOpen == CHOOSE i \in Positions("[") : \A k \in Positions("[") : i <= k
FirstClose ==
    CHOOSE j \in Positions("]") :
        j > FirstOpen /\ \A k \in Positions("]") : k > FirstOpen => j <= k

\* C11: a ServerInfo is returned only for a response with a '[' followed later
\* by a ']'; its version is the text strictly between the first '[' and the
\* first ']' after it, its name the text from two characters after that ']',
\* and both are non-empty.  With a bracket missing, ']' before '[' or an empty
\* span no ServerInfo is returned and the error is the 'unexpected format'
\* message, which is not the 'did not respond' message.
C11_ServerInfoParsing ==
    (InfoReturned /\ truthy(res)) =>
        /\ ret.server_info.present =>
              /\ Bracketed
              /\ ret.server_info.version = SubSeq(res, FirstOpen + 1, FirstClose - 1)
              /\ ret.server_info.name = SubSeq(res, FirstClose + 2, Len(res))
              /\ ret.server_info.version # <<>>
              /\ ret.server_info.name # <<>>
        /\ (~Bracketed \/ SubSeq(res, FirstOpen + 1, FirstClose - 1) = <<>>) =>
              /\ ~ret.server_info.present
              /\ ret.error = UNEXPECTED_FORMAT
              /\ ret.error # GENERIC_ERROR


\* ---------------------------------------------------------------------------
\* Properties of the status report's layout
\* ---------------------------------------------------------------------------

\* the lines of the report status_checks returned
ReportLines == status_out.description

HasLine(what) == \E i \in 1..Len(ReportLines) : ReportLines[i].what = what

\* the place of a line in the report: info, separator, IP, CPU, RAM
Rank(what) ==
    CASE what \in {"info", "unavailable"} -> 1
      [] what = "[Checks]" -> 2
      [] what = "IP" -> 3
      [] what = "CPU" -> 4
      [] what = "RAM" -> 5

AnyCheck == CONFIG.check_public_ip \/ CONFIG.check_cpu \/ CONFIG.check_ram

\* C12: the lines of a returned status report come in the order info line,
\* "[Checks]" separator, IP line, CPU line, RAM line; the separator is there
\* exactly when one of check_public_ip, check_cpu, check_ram is enabled, the
\* IP line only when check_public_ip is enabled, and the resource lines only
\* when check_cpu or check_ram is enabled
C12_ReportOrder ==
    status_out.kind = "return" =>
        /\ \A i, j \in 1..Len(ReportLines) :
              i < j => Rank(ReportLines[i].what) < Rank(ReportLines[j].what)
        /\ HasLine("[Checks]") <=> AnyCheck
        /\ HasLine("IP") => CONFIG.check_public_ip
        /\ HasLine("CPU") \/ HasLine("RAM") => CONFIG.check_cpu \/ CONFIG.check_ram

\* a report with every check enabled was returned, and holds all five lines
C12_Witness ==
    /\ status_out.kind = "return"
    /\ CONFIG.check_public_ip /\ CONFIG.check_cpu /\ CONFIG.check_ram
    /\ [i \in 1..Len(ReportLines) |-> Rank(ReportLines[i].what)] = <<1, 2, 3, 4, 5>>

\* ---------------------------------------------------------------------------
\* Properties of the CPU line
\* ---------------------------------------------------------------------------

\* check_current_resources computed a CPU value and built its line
CpuReported == cpu_usage # <<>> /\ resources_result.kind = "return"

\* the CPU line is the first line of what check_current_resources returned
CpuMarker == resources_result.item.lines[1].marker

\* C13 (as stated): a CPU value below 80 gets the pass marker, a value with
\* 80 <= CPU < 100 gets the pass marker too, and a value >= 100 is unknown
C13_WarnStillPasses ==
    CpuReported =>
        /\ cpu_usage[1] < 80 => CpuMarker = "pass"
        /\ cpu_usage[1] >= 80 /\ cpu_usage[1] < 100 => CpuMarker = "pass"
        /\ cpu_usage[1] >= 100 => CpuMarker = "unknown"

\* C13 (amended): a CPU value below 80 gets the pass marker, a value with
\* 80 <= CPU < 100 gets the fail marker, and a value >= 100 is unknown
C13_HighCpuFails ==
    CpuReported =>
        /\ resources_result.item.lines[1].what = "CPU"
        /\ cpu_usage[1] < 80 => CpuMarker = "pass"
        /\ cpu_usage[1] >= 80 /\ cpu_usage[1] < 100 => CpuMarker = "fail"
        /\ cpu_usage[1] >= 100 => CpuMarker = "unknown"

\* a CPU value of 90 was reported with the fail marker
C13_Witness ==
    /\ CpuReported
    /\ cpu_usage = <<90>>
    /\ CpuMarker = "fail"


\* ---------------------------------------------------------------------------
\* Properties of the long-lived connection mode
\* ---------------------------------------------------------------------------

Commands == { i \in 1..Len(console_log) : console_log[i].op = "command" }

\* the entries from i to j left CONSOLE open throughout
StaysOpen(i, j) == \A k \in i..j : console_log[k].after

\* what was done to CONSOLE right before the command at i: is_open() was asked
\* and said yes, or it said no and open() then succeeded
CheckedFirst(i) ==
    \/ /\ i > 1
       /\ console_log[i - 1].op = "is_open"
       /\ console_log[i - 1].before
    \/ /\ i > 2
       /\ console_log[i - 2].op = "is_open"
       /\ ~console_log[i - 2].before
       /\ console_log[i - 1].op = "open"
       /\ console_log[i - 1].after

\* C14: every command AsyncClient sends comes right after a check that CONSOLE
\* is open, with open() called when it was closed; no command is sent while
\* CONSOLE is closed; and between two commands across which CONSOLE stayed
\* open, open() is not called and both go out on the same session
C14_SessionReuse ==
    /\ \A i \in Commands : CheckedFirst(i) /\ console_log[i].before
    /\ \A i, j \in Commands :
          i < j /\ StaysOpen(i, j - 1) =>
              /\ console_log[i].session = console_log[j].session
              /\ \A k \in i..j : console_log[k].op # "open"

\* a command opened the session, a second one reused it, and after close()
\* a third one opened a new session
C14_Witness ==
    \E i, j, k \in Commands :
        /\ i < j /\ j < k
        /\ console_log[i - 1].op = "open"
        /\ console_log[j - 1].op = "is_open"
        /\ console_log[i].session = console_log[j].session
        /\ \E c \in j..k : console_log[c].op = "close"
        /\ console_log[k].session # console_log[j].session


\* ---------------------------------------------------------------------------
\* Properties of the CPU sampler
\* ---------------------------------------------------------------------------

\* check_cpu_usage has run on the measurements in cpu_sample
CpuSampled == cpu_sample # NoCpuSample /\ cpu_usage # <<>>

\* the usable cores: the affinity count, or the machine's count when the
\* affinity query failed, and at most 4
UsableCores ==
    LET count == IF cpu_sample.affinity.kind = "ok" THEN cpu_sample.affinity.count
                 ELSE cpu_sample.cpu_count
    IN  IF count < 4 THEN count ELSE 4

\* raw / cores, halved k times, is at most 100 (raw is in tenths of a percent)
AtMost100After(k) == cpu_sample.raw <= 1000 * UsableCores * (2 ^ k)

\* the number of halvings: none if the quotient is at most 100, otherwise the
\* first of 1..10 that brings it to at most 100, and 10 if none does
Halvings ==
    IF \E k \in 0..10 : AtMost100After(k)
    THEN CHOOSE k \in 0..10 :
            AtMost100After(k) /\ \A h \in 0..(k - 1) : ~AtMost100After(h)
    ELSE 10

\* C15: check_cpu_usage returns the raw percentage divided by the usable core
\* count (affinity count, or machine count when the affinity query fails, at
\* most 4), halved until it is at most 100 but no more than 10 times, and
\* truncated; raw 240 on 2 cores gives 60; and when the quotient is at most
\* 100 * 2^10 the result is between 0 and 100
C15_CpuSampling ==
    CpuSampled =>
        /\ cpu_usage[1] = cpu_sample.raw \div (10 * UsableCores * (2 ^ Halvings))
        /\ cpu_sample.raw = 2400 /\ UsableCores = 2 => cpu_usage[1] = 60
        /\ AtMost100After(10) => cpu_usage[1] \in 0..100

\* 240% measured on 2 permitted cores came out as 60
C15_Witness ==
    /\ CpuSampled
    /\ cpu_sample.raw = 2400
    /\ cpu_sample.affinity = [kind |-> "ok", count |-> 2]
    /\ cpu_usage = <<60>>

====
